---- MODULE Spec2Model ----
(***************************************************************************)
(* Model of scripts/download_surahs.py: the manifest loader, the URL       *)
(* discoverer, the retrying file downloader and the orchestrator main().   *)
(* The filesystem, the reciter page and the HTTP responses are the         *)
(* environment; they are drawn from small sets.                            *)
(***************************************************************************)
EXTENDS Integers, Sequences, FiniteSets, TLC

VARIABLES
    html,           \* discover_urls: the matches of the page text (lines 73-77)
    surahs_file,    \* SurahList.json: whether it parses, and its entries
    surahs,         \* main(): the loaded manifest (line 89)
    audio_dir,      \* whether AUDIO_DIR exists
    files,          \* the files of AUDIO_DIR: filename -> sequence of chunks
    url_map,        \* main(): the discovered index, number -> url (line 93)
    missing,        \* main(): manifest positions of the missing entries (line 98)
    index,          \* main(): enumerate index of the loop of line 106
    attempt,        \* download_file: loop variable of line 38
    response,       \* download_file: the response of the current attempt
    fh_open,        \* download_file: destination files open for write
    pc,             \* where the run is
    exit_code,      \* exit status of the process, NoExit while it runs
    second_run,     \* this is the run that follows an earlier one
    hist            \* history of the run (what was requested, opened, ...)

vars == <<html, surahs_file, surahs, audio_dir, files, url_map, missing, index,
          attempt, response, fh_open, pc, exit_code, second_run, hist>>

----------------------------------------------------------------------------
(* Program constants *)

RETRY_LIMIT == 3
MIN_LINKS == 114
HTTP_OK == 200

(* Bounds of the model *)

MaxEntries == 2     \* longest manifest
MaxChunks == 2      \* longest response body, in chunks of CHUNK_SIZE
MaxMatches == 3     \* most links of a page whose index is examined alone

\* exit_code while the process has not exited.
NoExit == -1
NoResponse == [status |-> 0, body |-> <<>>, pos |-> 0]

\* Entries SurahList.json may hold. The same entry may occur twice.
EntryPool == { [number |-> 1, audioFile |-> "001.mp3"],
               [number |-> 2, audioFile |-> "002.mp3"] }
Filenames == { e.audioFile : e \in EntryPool }

SeqsUpTo(S, n) == UNION { [1..k -> S] : k \in 0..n }

\* A manifest that does not load (absent, malformed, a field missing) holds
\* no entries the run could use.
ManifestFiles ==
    { [readable |-> TRUE, entries |-> e] : e \in SeqsUpTo(EntryPool, MaxEntries) }
    \cup { [readable |-> FALSE, entries |-> <<>>] }

\* Content of a file that is there before the first run.
OldContent == <<"old">>
\* A response body of n chunks; each chunk is named by its place in the body.
Body(n) == [k \in 1..n |-> k]
Bodies == { Body(n) : n \in 0..MaxChunks }
\* urlopen raises HTTPError for a status outside 2xx, so a response that
\* reaches line 45 carries a 2xx status.
Statuses == {200, 206}

\* The reciter page, as the matches of the pattern of line 75 in document
\* order: the links lo..hi on one host, then a few more links.
Hosts == {"cdn1", "cdn2"}
Url(host, num) == <<host, num>>
Match(num, host) == [num |-> num, url |-> Url(host, num)]
Listing(lo, hi) == [k \in 1..(hi - lo + 1) |-> Match(lo + k - 1, "cdn1")]
FirstLinks == {1, 2}
LastLinks == {113, 115}
Repeats == { <<>>, <<Match(1, "cdn2")>> }
Pages == { Listing(lo, hi) \o r : lo \in FirstLinks, hi \in LastLinks, r \in Repeats }

\* Short pages, with every order and repetition of a few links.
SmallNumbers == 1..3
SmallPages ==
    SeqsUpTo({ Match(n, h) : n \in SmallNumbers, h \in Hosts }, MaxMatches)

----------------------------------------------------------------------------
(* Pure helpers *)

EmptyMap == [k \in {} |-> Url("cdn1", k)]

\* load_surahs, lines 29-34: one {"number", "filename"} per entry, in order.
load_surahs(data) ==
    [k \in 1..Len(data) |-> [number |-> data[k].number, filename |-> data[k].audioFile]]

\* discover_urls, lines 77-79, for the matches lo..hi in document order:
\* urls[num] = url, a later assignment replacing what an earlier one set.
\* The assignments of the second half of a range come after those of the
\* first half, so they are laid over them; halving keeps the evaluation of
\* a page of more than a hundred links shallow.
AssignKeepFirst(matches, lo, hi) ==
    [n \in { matches[k].num : k \in lo..hi } |->
        matches[CHOOSE k \in lo..hi :
                   /\ matches[k].num = n
                   /\ \A j \in lo..hi : matches[j].num = n => k <= j].url]
RECURSIVE Assign(_, _, _)
Assign(matches, lo, hi) ==
    IF lo > hi THEN EmptyMap
    ELSE IF lo = hi THEN (matches[lo].num :> matches[lo].url)
    ELSE LET mid == (lo + hi) \div 2
         IN Assign(matches, mid + 1, hi) @@ Assign(matches, lo, mid)

\* discover_urls, lines 76-79.
BuildIndex(matches) == Assign(matches, 1, Len(matches))

\* discover_urls, line 81.
TooFewLinksNever(urls) == FALSE
TooFewLinksOffByOne(urls) == Cardinality(DOMAIN urls) < MIN_LINKS - 1
TooFewLinks(urls) == Cardinality(DOMAIN urls) < MIN_LINKS

Exists(fsys, name) == name \in DOMAIN fsys

\* main, line 98: the test of the list comprehension, and the list it
\* builds: the entries whose destination does not exist, in manifest order,
\* each named by its position in the manifest.
NeverExists(entry, fsys) == TRUE
IsMissing(entry, fsys) == ~Exists(fsys, entry.filename)

RECURSIVE MissingFrom(_, _, _)
MissingFrom(s, fsys, k) ==
    IF k > Len(s) THEN <<>>
    ELSE (IF IsMissing(s[k], fsys) THEN <<k>> ELSE <<>>) \o MissingFrom(s, fsys, k + 1)
MissingUnfiltered(s, fsys) == [k \in 1..Len(s) |-> k]
Missing(s, fsys) == MissingFrom(s, fsys, 1)

\* Path.unlink, line 55.
Unlink(fsys, name) == [g \in (DOMAIN fsys) \ {name} |-> fsys[g]]
\* Path.open("wb"), line 44: the file is created or truncated.
OpenWb(fsys, name) == [g \in (DOMAIN fsys) \cup {name} |-> IF g = name THEN <<>> ELSE fsys[g]]
\* line 44: entering the with statement opens the destination; leaving it,
\* by line 52 or by an exception, closes it.
OpenFile(n) == n + 1
CloseFileLeaked(n) == n
CloseFile(n) == n - 1
\* fh.write(chunk), line 51.
WriteDropped(fsys, name, chunk) == fsys
Write(fsys, name, chunk) == [fsys EXCEPT ![name] = Append(@, chunk)]

\* download_file, lines 54-55: the cleanup of a failed attempt.
CleanupDirectory(fsys, name) == [g \in {} |-> <<>>]
Cleanup(fsys, name) == IF Exists(fsys, name) THEN Unlink(fsys, name) ELSE fsys

\* download_file, line 56.
IsLastAttemptLate(a) == a = RETRY_LIMIT + 1
IsLastAttempt(a) == a = RETRY_LIMIT
\* download_file, line 58.
SleepSecondsFlat(a) == 2
SleepSeconds(a) == 2 * a

\* main, lines 106 and 122-123: the loop goes on with the next missing entry
\* or, after the last one, the run returns 0.
ContinueSameEntry(idx, miss) == [pc |-> "Lookup", index |-> idx, exit |-> NoExit]
Continue(idx, miss) ==
    IF idx < Len(miss) THEN [pc |-> "Lookup", index |-> idx + 1, exit |-> NoExit]
    ELSE [pc |-> "Done", index |-> idx, exit |-> 0]
\* main, line 89: load_surahs raised and nothing catches it; the traceback
\* ends the process with status 1.
ManifestErrorCaught == [pc |-> "Failed", exit |-> 1, uncaught |-> FALSE]
OnManifestError == [pc |-> "Crashed", exit |-> 1, uncaught |-> TRUE]
\* main, lines 94-96: discover_urls raised, return 1.
RetryDiscovery == [pc |-> "Discovering", exit |-> NoExit]
OnDiscoveryError == [pc |-> "Failed", exit |-> 1]
\* main, lines 111-113: no URL for the entry, return 1.
SkipOnKeyError(idx, miss) == Continue(idx, miss)
OnKeyError(idx, miss) == [pc |-> "Failed", index |-> idx, exit |-> 1]
\* main, lines 118-120: download_file raised RuntimeError, return 1.
SkipOnDownloadError(idx, miss) == Continue(idx, miss)
OnDownloadError(idx, miss) == [pc |-> "Failed", index |-> idx, exit |-> 1]

----------------------------------------------------------------------------
(* History of a run *)

NoCall == [dest |-> "", position |-> 0, outcomes |-> <<>>, ended |-> "none", sleeps |-> <<>>]

NewHist(fsys, intended, prev, removed) ==
    [ existed  |-> DOMAIN fsys,   \* the files there when main() starts
      fetch    |-> "none",        \* the request for the reciter page
      page_requests |-> 0,        \* requests sent to RECITER_PAGE
      mkdir    |-> FALSE,         \* AUDIO_DIR.mkdir was called
      matched  |-> 0,             \* matches of the pattern in the page
      found    |-> 0,             \* distinct numbers discover_urls matched
      calls    |-> <<>>,          \* download_file calls, by manifest position
      requests |-> <<>>,          \* content requests, by manifest position
      succeeded |-> {},           \* positions whose download_file returned
      opened   |-> {},            \* destinations opened for write
      intended |-> intended,      \* filename -> the body its last open was for
      dl       |-> NoCall,        \* the last download_file call
      loop_failure |-> 0,         \* loop index at which the loop failed
      uncaught |-> FALSE,         \* an exception left main()
      prev_exit |-> prev,         \* exit status of the run before
      removed  |-> removed ]      \* a file was removed between the runs

Restrict(f, S) == [x \in (DOMAIN f) \cap S |-> f[x]]

Position == missing[index]
Entry == surahs[Position]
Destination == Entry.filename

Terminal == pc \in {"Done", "Failed", "Crashed"}

----------------------------------------------------------------------------
(* Initial state *)

Init ==
    /\ html = <<>>
    /\ surahs_file \in ManifestFiles
    /\ audio_dir \in BOOLEAN
    /\ \E present \in SUBSET Filenames :
          /\ (present # {}) => audio_dir
          /\ files = [f \in present |-> OldContent]
    /\ surahs = <<>>
    /\ url_map = EmptyMap
    /\ missing = <<>>
    /\ index = 0
    /\ attempt = 0
    /\ response = NoResponse
    /\ fh_open = 0
    /\ pc = "Loading"
    /\ exit_code = NoExit
    /\ second_run = FALSE
    /\ hist = NewHist(files, [f \in DOMAIN files |-> files[f]], NoExit, FALSE)

----------------------------------------------------------------------------
(* main(), lines 88-96 *)

\* line 89: load_surahs returns the manifest.
LoadManifest ==
    /\ pc = "Loading"
    /\ surahs_file.readable
    /\ surahs' = load_surahs(surahs_file.entries)
    /\ pc' = "DirectoryReady"
    /\ UNCHANGED <<html, surahs_file, audio_dir, files, url_map, missing, index, attempt,
                   response, fh_open, exit_code, second_run, hist>>

\* line 89: load_surahs raises; nothing catches it, the interpreter prints
\* the traceback and exits with status 1.
LoadManifestRaises ==
    /\ pc = "Loading"
    /\ ~surahs_file.readable
    /\ pc' = OnManifestError.pc
    /\ exit_code' = OnManifestError.exit
    /\ hist' = [hist EXCEPT !.uncaught = OnManifestError.uncaught]
    /\ UNCHANGED <<html, surahs_file, surahs, audio_dir, files, url_map, missing, index,
                   attempt, response, fh_open, second_run>>

\* line 90: AUDIO_DIR.mkdir(parents=True, exist_ok=True).
EnsureDirectory ==
    /\ pc = "DirectoryReady"
    /\ audio_dir' = TRUE
    /\ pc' = "Discovering"
    /\ hist' = [hist EXCEPT !.mkdir = TRUE]
    /\ UNCHANGED <<html, surahs_file, surahs, files, url_map, missing, index, attempt,
                   response, fh_open, exit_code, second_run>>

\* lines 72-73 raise (the page cannot be fetched); lines 94-96 return 1.
DiscoverFetchFails ==
    /\ pc = "Discovering"
    /\ pc' = OnDiscoveryError.pc
    /\ exit_code' = OnDiscoveryError.exit
    /\ hist' = [hist EXCEPT !.fetch = "failed", !.page_requests = @ + 1]
    /\ UNCHANGED <<html, surahs_file, surahs, audio_dir, files, url_map, missing, index,
                   attempt, response, fh_open, second_run>>

\* lines 72-85 on a page that was fetched, then lines 94-104 of main.
DiscoverPage(page) ==
    /\ pc = "Discovering"
    /\ LET urls == BuildIndex(page)
           miss == Missing(surahs, files)
           h == [hist EXCEPT !.fetch = "ok", !.page_requests = @ + 1,
                             !.matched = Len(page),
                             !.found = Cardinality(DOMAIN urls)]
       IN /\ hist' = h
          /\ IF TooFewLinks(urls)
             THEN /\ pc' = OnDiscoveryError.pc
                  /\ exit_code' = OnDiscoveryError.exit
                  /\ UNCHANGED <<url_map, missing, index>>
             ELSE /\ url_map' = urls
                  /\ missing' = miss
                  /\ IF miss = <<>>
                     THEN /\ pc' = "Done"
                          /\ exit_code' = 0
                          /\ index' = index
                     ELSE /\ pc' = "Lookup"
                          /\ exit_code' = exit_code
                          /\ index' = 1
    /\ UNCHANGED <<html, surahs_file, surahs, audio_dir, files, attempt, response,
                   fh_open, second_run>>

----------------------------------------------------------------------------
(* main(), lines 106-123, and download_file, lines 37-64 *)

\* lines 107-117: look the entry's URL up; without one return 1, with one
\* call download_file, which starts its first attempt.
Lookup ==
    /\ pc = "Lookup"
    /\ IF Entry.number \notin DOMAIN url_map
       THEN LET r == OnKeyError(index, missing)
            IN /\ pc' = r.pc
               /\ index' = r.index
               /\ exit_code' = r.exit
               /\ hist' = [hist EXCEPT !.loop_failure = index]
               /\ UNCHANGED <<attempt, response>>
       ELSE /\ pc' = "Attempt"
            /\ attempt' = 1
            /\ response' = NoResponse
            /\ hist' = [hist EXCEPT !.calls = Append(@, Position),
                                    !.dl = [dest |-> Destination, position |-> Position,
                                            outcomes |-> <<>>, ended |-> "running",
                                            sleeps |-> <<>>]]
            /\ UNCHANGED <<index, exit_code>>
    /\ UNCHANGED <<html, surahs_file, surahs, audio_dir, files, url_map, missing,
                   fh_open, second_run>>

\* line 44: urlopen raises URLError or HTTPError; line 53 catches it.
UrlopenRaisesURLError ==
    /\ pc = "Attempt"
    /\ pc' = "Except"
    /\ hist' = [hist EXCEPT !.requests = Append(@, Position),
                            !.dl.outcomes = Append(@, "fail")]
    /\ UNCHANGED <<html, surahs_file, surahs, audio_dir, files, url_map, missing, index,
                   attempt, response, fh_open, exit_code, second_run>>

\* line 44: urlopen raises an exception that line 53 does not name (the
\* server closed the connection before the status line); it leaves
\* download_file and main, which catches RuntimeError only (line 118).
UrlopenRaisesOther ==
    /\ pc = "Attempt"
    /\ pc' = "Crashed"
    /\ exit_code' = 1
    /\ hist' = [hist EXCEPT !.requests = Append(@, Position),
                            !.dl.outcomes = Append(@, "fail"),
                            !.dl.ended = "escaped",
                            !.uncaught = TRUE]
    /\ UNCHANGED <<html, surahs_file, surahs, audio_dir, files, url_map, missing, index,
                   attempt, response, fh_open, second_run>>

\* lines 44-46: urlopen returns a response, the destination is opened for
\* write, and a status other than 200 raises RuntimeError, which closes the
\* file and is caught at line 53.
UrlopenResponds(status, body) ==
    /\ pc = "Attempt"
    /\ files' = OpenWb(files, Destination)
    /\ response' = [status |-> status, body |-> body, pos |-> 0]
    /\ IF status # HTTP_OK
       THEN /\ pc' = "Except"
            /\ fh_open' = CloseFile(OpenFile(fh_open))
            /\ hist' = [hist EXCEPT !.requests = Append(@, Position),
                                    !.opened = @ \cup {Destination},
                                    !.intended = (Destination :> body) @@ @,
                                    !.dl.outcomes = Append(@, "fail")]
       ELSE /\ pc' = "Reading"
            /\ fh_open' = OpenFile(fh_open)
            /\ hist' = [hist EXCEPT !.requests = Append(@, Position),
                                    !.opened = @ \cup {Destination},
                                    !.intended = (Destination :> body) @@ @]
    /\ UNCHANGED <<html, surahs_file, surahs, audio_dir, url_map, missing, index, attempt,
                   exit_code, second_run>>

\* lines 48-51: response.read returns a chunk, which is written.
ReadChunk ==
    /\ pc = "Reading"
    /\ response.pos < Len(response.body)
    /\ files' = Write(files, Destination, response.body[response.pos + 1])
    /\ response' = [response EXCEPT !.pos = @ + 1]
    /\ UNCHANGED <<html, surahs_file, surahs, audio_dir, url_map, missing, index, attempt,
                   fh_open, pc, exit_code, second_run, hist>>

\* line 48: response.read raises before the body is complete (connection
\* reset, IncompleteRead): not an exception line 53 names. The with
\* statement closes the file; the exception leaves download_file and main.
ReadRaises ==
    /\ pc = "Reading"
    /\ response.pos < Len(response.body)
    /\ fh_open' = CloseFile(fh_open)
    /\ pc' = "Crashed"
    /\ exit_code' = 1
    /\ hist' = [hist EXCEPT !.dl.outcomes = Append(@, "fail"),
                            !.dl.ended = "escaped",
                            !.uncaught = TRUE]
    /\ UNCHANGED <<html, surahs_file, surahs, audio_dir, files, url_map, missing, index,
                   attempt, response, second_run>>

\* lines 49-52: response.read returns no data, the file is closed and
\* download_file returns; main's loop goes on (line 106) or ends (122-123).
ReadEnd ==
    /\ pc = "Reading"
    /\ response.pos = Len(response.body)
    /\ fh_open' = CloseFile(fh_open)
    /\ LET r == Continue(index, missing)
       IN /\ pc' = r.pc
          /\ index' = r.index
          /\ exit_code' = r.exit
    /\ hist' = [hist EXCEPT !.dl.outcomes = Append(@, "ok"),
                            !.dl.ended = "returned",
                            !.succeeded = @ \cup {Position}]
    /\ UNCHANGED <<html, surahs_file, surahs, audio_dir, files, url_map, missing,
                   attempt, response, second_run>>

\* lines 54-64: delete what the attempt left, then raise after the last
\* attempt (main returns 1, lines 118-120) or sleep before the next one.
HandleFailure ==
    /\ pc = "Except"
    /\ files' = Cleanup(files, Destination)
    /\ IF IsLastAttempt(attempt)
       THEN LET r == OnDownloadError(index, missing)
            IN /\ pc' = r.pc
               /\ index' = r.index
               /\ exit_code' = r.exit
               /\ hist' = [hist EXCEPT !.dl.ended = "raised",
                                       !.loop_failure = index,
                                       !.intended = Restrict(@, DOMAIN files')]
       ELSE /\ pc' = "Sleeping"
            /\ hist' = [hist EXCEPT !.dl.sleeps = Append(@, SleepSeconds(attempt)),
                                    !.intended = Restrict(@, DOMAIN files')]
            /\ UNCHANGED <<index, exit_code>>
    /\ UNCHANGED <<html, surahs_file, surahs, audio_dir, url_map, missing, attempt,
                   response, fh_open, second_run>>

\* line 64, then line 38: after the sleep the next attempt starts; when
\* range(1, RETRY_LIMIT + 1) is used up download_file returns.
Sleep ==
    /\ pc = "Sleeping"
    /\ IF attempt < RETRY_LIMIT
       THEN /\ attempt' = attempt + 1
            /\ pc' = "Attempt"
            /\ UNCHANGED <<index, exit_code, hist>>
       ELSE /\ LET r == Continue(index, missing)
               IN /\ pc' = r.pc
                  /\ index' = r.index
                  /\ exit_code' = r.exit
            /\ hist' = [hist EXCEPT !.dl.ended = "returned",
                                    !.succeeded = @ \cup {Position}]
            /\ UNCHANGED attempt
    /\ UNCHANGED <<html, surahs_file, surahs, audio_dir, files, url_map, missing,
                   response, fh_open, second_run>>

----------------------------------------------------------------------------
(* The script is run again *)

\* A file of AUDIO_DIR is removed between the runs.
RemoveFile(name) ==
    /\ Terminal
    /\ ~second_run
    /\ ~hist.removed
    /\ Exists(files, name)
    /\ files' = Unlink(files, name)
    /\ hist' = [hist EXCEPT !.removed = TRUE, !.intended = Restrict(@, DOMAIN files')]
    /\ UNCHANGED <<html, surahs_file, surahs, audio_dir, url_map, missing, index, attempt,
                   response, fh_open, pc, exit_code, second_run>>

\* line 127 once more: a new process, the same manifest, the files as the
\* run before left them.
Rerun ==
    /\ Terminal
    /\ ~second_run
    /\ second_run' = TRUE
    /\ surahs' = <<>>
    /\ url_map' = EmptyMap
    /\ missing' = <<>>
    /\ index' = 0
    /\ attempt' = 0
    /\ response' = NoResponse
    /\ fh_open' = 0
    /\ pc' = "Loading"
    /\ exit_code' = NoExit
    /\ hist' = NewHist(files, hist.intended, exit_code, hist.removed)
    /\ UNCHANGED <<html, surahs_file, audio_dir, files>>

----------------------------------------------------------------------------
(* discover_urls on its own, lines 75-79 *)

\* The page text was read (line 73); nothing else has happened.
InitIndex ==
    /\ html \in SmallPages
    /\ surahs_file = [readable |-> TRUE, entries |-> <<>>]
    /\ surahs = <<>>
    /\ audio_dir = TRUE
    /\ files = [f \in {} |-> <<>>]
    /\ url_map = EmptyMap
    /\ missing = <<>>
    /\ index = 0
    /\ attempt = 0
    /\ response = NoResponse
    /\ fh_open = 0
    /\ pc = "Indexing"
    /\ exit_code = NoExit
    /\ second_run = FALSE
    /\ hist = NewHist(files, files, NoExit, FALSE)

\* lines 75-79: the index of the page is built.
IndexPage ==
    /\ pc = "Indexing"
    /\ url_map' = BuildIndex(html)
    /\ hist' = [hist EXCEPT !.matched = Len(html),
                            !.found = Cardinality(DOMAIN url_map')]
    /\ pc' = "Indexed"
    /\ UNCHANGED <<html, surahs_file, surahs, audio_dir, files, missing, index,
                   attempt, response, fh_open, exit_code, second_run>>

----------------------------------------------------------------------------
(* Specifications *)

Next ==
    \/ LoadManifest
    \/ LoadManifestRaises
    \/ EnsureDirectory
    \/ DiscoverFetchFails
    \/ \E page \in Pages : DiscoverPage(page)
    \/ Lookup
    \/ UrlopenRaisesURLError
    \/ UrlopenRaisesOther
    \/ \E status \in Statuses, body \in Bodies : UrlopenResponds(status, body)
    \/ ReadChunk
    \/ ReadRaises
    \/ ReadEnd
    \/ HandleFailure
    \/ Sleep

\* One run of the script.
Spec == Init /\ [][Next]_vars

NextTwice ==
    \/ Next
    \/ \E name \in Filenames : RemoveFile(name)
    \/ Rerun

\* One run in which every request eventually returns or fails and every
\* sleep ends: the single thread of the script always takes its next step.
SpecFair == Init /\ [][Next]_vars /\ WF_vars(Next)

NextIndex == IndexPage

\* The index of every short page.
SpecIndex == InitIndex /\ [][NextIndex]_vars

\* The script run twice in a row.
SpecTwice == Init /\ [][NextTwice]_vars

TypeOK ==
    /\ pc \in {"Loading", "DirectoryReady", "Discovering", "Lookup", "Attempt",
               "Reading", "Except", "Sleeping", "Done", "Failed", "Crashed",
               "Indexing", "Indexed"}
    /\ exit_code \in {NoExit, 0, 1}
    /\ attempt \in 0..RETRY_LIMIT
    /\ DOMAIN files \subseteq Filenames

----------------------------------------------------------------------------
(* What the properties below speak of *)

\* The positions of the content requests, of the download_file calls.
Requested == { hist.requests[k] : k \in DOMAIN hist.requests }
Called == { hist.calls[k] : k \in DOMAIN hist.calls }
\* Content requests made by the last download_file call.
CallRequests == Cardinality({ k \in DOMAIN hist.requests : hist.requests[k] = hist.dl.position })
CallEnded == hist.dl.ended \in {"returned", "raised", "escaped"}
\* The destination holds all of the body its last open was for.
Complete(name) == Exists(files, name) /\ files[name] = hist.intended[name]

Loaded == surahs_file.readable /\ pc # "Loading"
DiscoveryOk == hist.fetch = "ok" /\ hist.found >= MIN_LINKS
DiscoveryFailed == hist.fetch = "failed" \/ (hist.fetch = "ok" /\ hist.found < MIN_LINKS)
LoopFailed == hist.loop_failure # 0
NoUrl == LoopFailed /\ surahs[missing[hist.loop_failure]].number \notin DOMAIN url_map
RetriesExhausted == hist.dl.ended = "raised"
PresentAtStart(k) == surahs[k].filename \in hist.existed
NoneMissingAtStart == \A k \in 1..Len(surahs) : PresentAtStart(k)

----------------------------------------------------------------------------
(* Properties *)

\* C1: an entry whose destination file exists when main() starts gets no
\* download_file call and no content request during the run, whatever
\* discovery and the other entries' downloads do.
C1_PresentEntryNotRequested ==
    \A k \in Requested \cup Called : ~PresentAtStart(k)

\* C1 witness: a run ended with 0 after downloading one entry while another
\* entry's file was there from the start.
C1_Witness ==
    /\ pc = "Done"
    /\ Requested # {}
    /\ \E k \in 1..Len(surahs) : PresentAtStart(k)

\* C2: when download_file has ended, by return or by any exception, the
\* destination file is absent or holds the complete body.  (Fails: an
\* exception line 53 does not name skips the cleanup of lines 54-55.)
C2_CompleteOrAbsentAtExit ==
    CallEnded => (~Exists(files, hist.dl.dest) \/ Complete(hist.dl.dest))

\* C3: when discovery matched fewer than MIN_LINKS distinct numbers the run
\* has failed with exit code 1, and it made no download_file call, sent no
\* content request and opened no destination file.
C3_TooFewLinksFailsFast ==
    (hist.fetch = "ok" /\ hist.found < MIN_LINKS) =>
        /\ pc = "Failed"
        /\ exit_code = 1
        /\ hist.calls = <<>>
        /\ hist.requests = <<>>
        /\ hist.opened = {}
        /\ DOMAIN files = hist.existed

\* C3 witness: the page had at least MIN_LINKS matches but one number short
\* of MIN_LINKS distinct ones, an entry was missing, and the run failed.
C3_Witness ==
    /\ pc = "Failed"
    /\ hist.matched >= MIN_LINKS
    /\ hist.found = MIN_LINKS - 1
    /\ \E k \in 1..Len(surahs) : ~PresentAtStart(k)

\* C4: when download_file has ended after RETRY_LIMIT failed attempts, it
\* ended by raising the terminal error of line 57, after exactly
\* RETRY_LIMIT requests, and the destination does not exist.  (Fails: the
\* third attempt can fail with an exception line 53 does not name.)
C4_AllAttemptsFail ==
    (/\ CallEnded
     /\ Len(hist.dl.outcomes) = RETRY_LIMIT
     /\ \A k \in DOMAIN hist.dl.outcomes : hist.dl.outcomes[k] = "fail") =>
        /\ hist.dl.ended = "raised"
        /\ CallRequests = RETRY_LIMIT
        /\ ~Exists(files, hist.dl.dest)

\* C5: when attempts 1 and 2 of a download_file call failed and attempt 3
\* succeeded, the call returned, it made exactly 3 requests, and the
\* destination holds exactly the body of the third response.
C5_ThirdAttemptSucceeds ==
    (hist.dl.outcomes = <<"fail", "fail", "ok">>) =>
        /\ hist.dl.ended = "returned"
        /\ attempt = 3
        /\ CallRequests = 3
        /\ fh_open = 0
        /\ Exists(files, hist.dl.dest)
        /\ files[hist.dl.dest] = response.body

\* C5 witness: such a call has returned and the third body had more than
\* one chunk.
C5_Witness ==
    /\ hist.dl.outcomes = <<"fail", "fail", "ok">>
    /\ hist.dl.ended = "returned"
    /\ Len(response.body) > 1
    /\ files[hist.dl.dest] = response.body

\* C6 as stated, taken in the case most favourable to it (the first run
\* exited with code 0): the second of two runs in a row, no file removed
\* between them, makes no download attempt and exits with code 0.
C6_SecondRunIsNoOpAsStated ==
    (second_run /\ ~hist.removed /\ hist.prev_exit = 0 /\ Terminal) =>
        (hist.requests = <<>> /\ exit_code = 0)

\* C6 amended: when the first run exited with code 0 and no file was removed
\* between the runs, the second run makes no download_file call and no
\* content request; it exits with code 0 when its discovery succeeds and
\* with code 1 when its discovery fails.
C6_SecondRunIsNoOp ==
    (second_run /\ ~hist.removed /\ hist.prev_exit = 0) =>
        /\ hist.calls = <<>>
        /\ hist.requests = <<>>
        /\ pc # "Crashed"
        /\ Terminal => /\ exit_code \in {0, 1}
                       /\ exit_code = 0 <=> DiscoveryOk
                       /\ exit_code = 1 <=> DiscoveryFailed

\* C6 witness: the first run downloaded a file and exited with 0, and the
\* second run has ended with 0.
C6_Witness ==
    /\ second_run
    /\ ~hist.removed
    /\ hist.prev_exit = 0
    /\ pc = "Done"
    /\ exit_code = 0
    /\ Len(surahs) > 0
    /\ \E f \in DOMAIN files : files[f] # OldContent

\* C7: a run whose manifest loaded ends with exit code 0 exactly when it
\* succeeded (discovery worked and every missing entry was downloaded), with
\* 1 exactly when discovery failed, an entry had no URL or a download
\* exhausted its retries, and with no other code.  (Fails: an exception
\* that leaves main ends the process with status 1 in none of these cases.)
C7_ExitCodes ==
    (Terminal /\ Loaded) =>
        /\ exit_code \in {0, 1}
        /\ exit_code = 0 <=>
              (DiscoveryOk /\ \A k \in DOMAIN missing : missing[k] \in hist.succeeded)
        /\ exit_code = 1 <=> (DiscoveryFailed \/ NoUrl \/ RetriesExhausted)

\* C8: once the loop over the missing entries has failed at an entry (no
\* URL, or download_file raised), the run has ended with exit code 1 at that
\* entry: no later missing entry has a download_file call or a request.
C8_FirstFailureEndsRun ==
    LoopFailed =>
        /\ pc = "Failed"
        /\ exit_code = 1
        /\ index = hist.loop_failure
        /\ \A j \in DOMAIN missing :
              j > hist.loop_failure => missing[j] \notin Requested \cup Called

\* C8 witness: a download exhausted its retries while a later entry was
\* still missing.
C8_Witness ==
    /\ LoopFailed
    /\ RetriesExhausted
    /\ hist.loop_failure < Len(missing)

\* C9: the missing entries are taken in manifest order, one download_file
\* call each, the next one only after the one before returned; an entry
\* without a URL ends the run with 1 without a request for it, all missing
\* entries before it having been downloaded.
C9_ManifestOrder ==
    /\ \A j, k \in DOMAIN missing : j < k => missing[j] < missing[k]
    /\ Len(hist.calls) <= Len(missing)
    /\ \A k \in DOMAIN hist.calls : hist.calls[k] = missing[k]
    /\ \A k \in DOMAIN hist.calls : k < Len(hist.calls) => hist.calls[k] \in hist.succeeded
    /\ \A k \in DOMAIN hist.requests :
          /\ hist.requests[k] \in Called
          /\ k > 1 => hist.requests[k - 1] <= hist.requests[k]
    /\ pc = "Done" => hist.calls = missing
    /\ NoUrl =>
          /\ pc = "Failed"
          /\ exit_code = 1
          /\ missing[hist.loop_failure] \notin Requested \cup Called
          /\ \A j \in DOMAIN missing :
                j < hist.loop_failure => missing[j] \in hist.succeeded

\* C9 witness: the second missing entry had no URL, after the first one was
\* downloaded.
C9_Witness ==
    /\ NoUrl
    /\ hist.loop_failure = 2
    /\ missing[1] \in hist.succeeded
    /\ Complete(surahs[missing[1]].filename)

\* C10 as stated: a run with no missing entry makes no download attempt and
\* exits with code 0.
C10_NothingMissingExitsZeroAsStated ==
    (Terminal /\ Loaded /\ NoneMissingAtStart) =>
        (hist.requests = <<>> /\ exit_code = 0)

\* C10 amended: a run with no missing entry makes no download attempt; it
\* exits with code 0 exactly when discovery succeeded (whether or not the
\* index has a URL for every manifest entry) and with 1 when it failed.
C10_NothingMissing ==
    (Loaded /\ NoneMissingAtStart) =>
        /\ hist.calls = <<>>
        /\ hist.requests = <<>>
        /\ DiscoveryOk => (pc = "Done" /\ exit_code = 0)
        /\ DiscoveryFailed => (pc = "Failed" /\ exit_code = 1)
        /\ Terminal => (DiscoveryOk \/ DiscoveryFailed)

\* C10 witness: nothing was missing, the index lacks the URL of a manifest
\* entry, and the run ended with 0.
C10_Witness ==
    /\ pc = "Done"
    /\ exit_code = 0
    /\ NoneMissingAtStart
    /\ \E k \in 1..Len(surahs) : surahs[k].number \notin DOMAIN url_map

\* C11: within one download_file call the k-th sleep lasts 2*k seconds and
\* follows the failed attempt k; a sleep is always followed by the next
\* attempt, so none follows the third failed attempt or a success, and a
\* call sleeps at most twice.
C11_Backoff ==
    LET s == hist.dl.sleeps
        o == hist.dl.outcomes
    IN /\ Len(s) <= 2
       /\ \A k \in DOMAIN s :
             /\ s[k] = 2 * k
             /\ k < RETRY_LIMIT
             /\ k <= Len(o) /\ o[k] = "fail"
       /\ pc = "Sleeping" => (Len(s) = attempt /\ attempt < RETRY_LIMIT)
       /\ pc \in {"Attempt", "Reading", "Except"} => Len(s) = attempt - 1
       /\ CallEnded => Len(s) = Len(o) - 1

\* C11 witness: a call failed three times and raised, having slept 2 s and
\* then 4 s.
C11_Witness ==
    /\ RetriesExhausted
    /\ hist.dl.outcomes = <<"fail", "fail", "fail">>
    /\ hist.dl.sleeps = <<2, 4>>

\* C12: a run sends at most one request to the reciter page, and sends it
\* before any content request; a failed request is not repeated: the run
\* has ended with exit code 1 and without a content request.
C12_SingleDiscovery ==
    /\ hist.page_requests <= 1
    /\ (hist.requests # <<>> \/ hist.calls # <<>>) =>
          (hist.page_requests = 1 /\ hist.fetch = "ok")
    /\ hist.fetch = "failed" =>
          /\ hist.page_requests = 1
          /\ pc = "Failed"
          /\ exit_code = 1
          /\ hist.requests = <<>>
          /\ hist.calls = <<>>
          /\ hist.opened = {}

\* C12 witness: the request for the page failed in a run with a missing
\* entry, and the run has ended.
C12_Witness ==
    /\ hist.fetch = "failed"
    /\ pc = "Failed"
    /\ \E k \in 1..Len(surahs) : ~PresentAtStart(k)

\* The states of the orchestrator, in the order of spec 4.4: Loading,
\* DirectoryReady, Discovering, Downloading, and the end of the run.
Downloading == pc \in {"Lookup", "Attempt", "Reading", "Except", "Sleeping"}
Stage(p) ==
    CASE p = "Loading" -> 0
      [] p = "DirectoryReady" -> 1
      [] p = "Discovering" -> 2
      [] p \in {"Lookup", "Attempt", "Reading", "Except", "Sleeping"} -> 3
      [] OTHER -> 4

C13_Order ==
    /\ Stage(pc) \in {2, 3} => (hist.mkdir /\ audio_dir)
    /\ hist.page_requests > 0 => (hist.mkdir /\ audio_dir)
    /\ hist.requests # <<>> => hist.page_requests > 0
    /\ (~surahs_file.readable) =>
          /\ pc \in {"Loading", "Crashed"}
          /\ pc = "Crashed" => hist.uncaught
          /\ ~hist.mkdir
          /\ hist.page_requests = 0
          /\ hist.requests = <<>>
          /\ surahs = <<>>

C13_Step ==
    /\ Stage(pc') >= Stage(pc)
    /\ (Downloading /\ Downloading') => index' >= index
    /\ Terminal => pc' = pc

\* C13: a run only moves forward through Loading, DirectoryReady,
\* Discovering, Downloading(i) with growing i, and its end; a manifest that
\* does not load ends the run by an uncaught exception before the output
\* directory is made and before any HTTP request; the directory is made
\* before the reciter page is requested.
C13_ForwardOnly == [](C13_Order) /\ [][C13_Step]_vars

\* C13 witness: the manifest did not load and the run has ended by the
\* uncaught exception, the output directory still absent.
C13_Witness ==
    /\ ~surahs_file.readable
    /\ pc = "Crashed"
    /\ hist.uncaught
    /\ ~audio_dir

\* Content requests a history holds for the entry at manifest position p.
RequestsFor(h, p) == Cardinality({ k \in DOMAIN h.requests : h.requests[k] = p })

C14_Bounds ==
    /\ \A p \in 1..Len(surahs) : RequestsFor(hist, p) <= 3
    /\ CallRequests <= 3
    /\ Len(hist.requests) <= 3 * Len(missing)
    /\ \A p \in Requested : \E k \in DOMAIN missing : missing[k] = p

C14_NoRequestAfterSuccess ==
    \A p \in hist.succeeded : RequestsFor(hist', p) = RequestsFor(hist, p)

\* C14: every run ends (Done, Failed, or the failure of an exception that
\* leaves main), given that every request returns or fails; a download_file
\* call sends at most 3 requests, a run with m missing entries at most 3*m,
\* and none for an entry after its download succeeded.
C14_Terminates ==
    /\ [](C14_Bounds)
    /\ [][C14_NoRequestAfterSuccess]_vars
    /\ <>Terminal

\* C14 witness: a run with two missing entries has ended after sending the
\* most requests it can: three for the first entry, which succeeded at the
\* third, and three for the second.
C14_Witness ==
    /\ Terminal
    /\ Len(missing) = 2
    /\ Len(hist.requests) = 3 * Len(missing)
    /\ missing[1] \in hist.succeeded

\* C15: at most one destination file is open at any time, and only while
\* an attempt reads its response; none is open when the failure of an
\* attempt is handled (the cleanup deletion), during a backoff sleep,
\* between calls, or when download_file or the run has ended.
C15_FileOpenOnlyInAttempt ==
    /\ fh_open \in {0, 1}
    /\ fh_open = 1 =>
          /\ pc = "Reading"
          /\ hist.dl.ended = "running"
          /\ Exists(files, Destination)
          /\ Destination \in hist.opened
    /\ pc \in {"Except", "Sleeping", "Lookup", "Attempt"} => fh_open = 0
    /\ (CallEnded \/ Terminal) => fh_open = 0

\* C15 witness: an attempt opened the destination and failed (status other
\* than 200); the call now sleeps with no file open and the file deleted.
C15_Witness ==
    /\ pc = "Sleeping"
    /\ response.status \notin {0, HTTP_OK}
    /\ fh_open = 0
    /\ ~Exists(files, Destination)

\* The index got by inserting the matches one by one, in document order, a
\* later insertion replacing the url of an earlier one.
RECURSIVE Inserted(_, _)
Inserted(matches, urls) ==
    IF matches = <<>> THEN urls
    ELSE Inserted(Tail(matches),
                  [n \in (DOMAIN urls) \cup {Head(matches).num} |->
                      IF n = Head(matches).num THEN Head(matches).url ELSE urls[n]])

\* The place of the last match of number n in the page.
LastMatch(matches, n) ==
    CHOOSE k \in DOMAIN matches :
        /\ matches[k].num = n
        /\ \A j \in DOMAIN matches : matches[j].num = n => j <= k

\* C16: the index discover_urls builds from a page maps every matched
\* number, and nothing else, to the url of its last match in document
\* order; it is the index got by inserting the matches in order, and its
\* size is the number of distinct numbers matched.
C16_LastMatchWins ==
    pc = "Indexed" =>
        /\ DOMAIN url_map = { html[k].num : k \in DOMAIN html }
        /\ \A n \in DOMAIN url_map : url_map[n] = html[LastMatch(html, n)].url
        /\ url_map = Inserted(html, EmptyMap)
        /\ hist.found = Cardinality({ html[k].num : k \in DOMAIN html })

\* C16 witness: a page with three matches of one number on changing hosts
\* was indexed: one key, holding the url of the third match.
C16_Witness ==
    /\ pc = "Indexed"
    /\ Len(html) = 3
    /\ hist.found = 1
    /\ html[1].url # html[3].url
    /\ html[2].url # html[3].url
    /\ url_map[html[3].num] = html[3].url

\* C17: when main() returns 0 the destination of every manifest entry
\* exists: it was there when main() started, or a download_file call for
\* the entry returned and the file holds the whole body of its last
\* response. (No action of a single run removes a file from outside.)
C17_ReturnZeroAllPresent ==
    pc = "Done" =>
        \A k \in 1..Len(surahs) :
            /\ Exists(files, surahs[k].filename)
            /\ \/ PresentAtStart(k)
               \/ k \in hist.succeeded /\ Complete(surahs[k].filename)

\* C17 witness: main() returned 0 with a manifest of two entries, one whose
\* file was there from the start and one whose file was downloaded.
C17_Witness ==
    /\ pc = "Done"
    /\ exit_code = 0
    /\ Len(surahs) = 2
    /\ \E k \in 1..2 : PresentAtStart(k)
    /\ \E k \in 1..2 : ~PresentAtStart(k) /\ k \in hist.succeeded
                        /\ files[surahs[k].filename] = Body(MaxChunks)

\* The destinations of the entries that were missing when main() started.
MissingDestinations ==
    { surahs[k].filename : k \in { j \in 1..Len(surahs) : ~PresentAtStart(j) } }
\* The files a step creates, deletes or changes.
Touched ==
    { f \in (DOMAIN files) \cup (DOMAIN files') :
        \/ (f \in DOMAIN files) # (f \in DOMAIN files')
        \/ f \in DOMAIN files /\ f \in DOMAIN files' /\ files[f] # files'[f] }

C18_Untouched ==
    \A f \in hist.existed :
        /\ f \notin hist.opened
        /\ Exists(files, f)
        /\ files[f] = OldContent
C18_Step ==
    /\ Touched \subseteq MissingDestinations
    /\ hist'.opened \subseteq MissingDestinations

\* C18: a file that exists when main() starts is never opened for write,
\* truncated or deleted by the run, and every file a step of the run
\* creates, overwrites or deletes is the destination of an entry that was
\* missing at the start, on the failure paths as on the others.
C18_OnlyMissingDestinationsTouched ==
    [](C18_Untouched) /\ [][C18_Step]_vars

\* C18 witness: a download used up its attempts after its destination had
\* been opened and deleted, and a file there from the start is as it was.
C18_Witness ==
    /\ pc = "Failed"
    /\ hist.dl.ended = "raised"
    /\ hist.dl.dest \in hist.opened
    /\ ~Exists(files, hist.dl.dest)
    /\ \E f \in hist.existed : Exists(files, f) /\ files[f] = OldContent

====
